---- MODULE Spec2Model ----
(***************************************************************************)
(* Drought monitoring dashboard: the alert feed client (App, Navbar,       *)
(* AlertsPanel) and the alert lifecycle / delivery pipeline the feed is    *)
(* served from.                                                            *)
(***************************************************************************)
EXTENDS Integers, Sequences, FiniteSets, TLC

(***************************************************************************)
(* Bounds                                                                  *)
(***************************************************************************)
\* alert ids the server can return to the dashboard (Spec)
MaxAlertId == 1
\* alert ids the server can return in the one-panel feed specification
MaxFeedId == 4
\* fetchAlerts requests one panel may have in flight
MaxInFlight == 1
\* coordinates a location update can carry
MaxLoc == 1

(***************************************************************************)
(* Values                                                                  *)
(***************************************************************************)
\* JavaScript null for userLocation / user, as a number outside Locations
NoLocation == 0
Locations == 1..MaxLoc
\* alert.severity_level when the field is missing
Undefined == "undefined"
NoError == "null"
FetchErrorMessage == "Failed to load alerts. Please try again."
PanelIds == {"main", "side"}
FilterKeys == {"all", "critical", "medium", "low"}

(***************************************************************************)
(* Alerts as the feed endpoint returns them                                *)
(***************************************************************************)
SeverityCatalogue == <<"critical", "High", "high", "high", "low", "medium", "severe", Undefined>>
CreatedAtCatalogue == <<"2025-10-04T08:00:00Z", "2025-10-04T09:00:00Z",
                        "2025-10-04T11:00:00+02:00", "2025-10-04T10:00:00+02:00",
                        "2025-10-04T09:00:00Z", "2025-10-04T09:00:00Z",
                        "2025-10-04T11:00:00+02:00", "2025-10-04T08:00:00Z">>

ServerAlert(i) ==
    [id |-> i,
     severity_level |-> SeverityCatalogue[((i - 1) % Len(SeverityCatalogue)) + 1],
     created_at |-> CreatedAtCatalogue[((i - 1) % Len(CreatedAtCatalogue)) + 1]]

RECURSIVE SeqsOver(_)
\* every sequence of distinct elements of S (a response lists an alert once)
SeqsOver(S) ==
    IF S = {} THEN {<<>>}
    ELSE {<<>>} \cup UNION {{<<x>> \o t : t \in SeqsOver(S \ {x})} : x \in S}

ServerFeeds(maxId) == SeqsOver({ServerAlert(i) : i \in 1..maxId})

IdsOf(s) == {s[i].id : i \in 1..Len(s)}

(***************************************************************************)
(* String.prototype.toLowerCase and Date parsing on the values above       *)
(***************************************************************************)
toLowerCase(s) ==
    CASE s = "High" -> "high"
      [] s = "Critical" -> "critical"
      [] s = "Medium" -> "medium"
      [] s = "LOW" -> "low"
      [] OTHER -> s

\* alert.severity_level?.toLowerCase()
OptLower(s) == IF s = Undefined THEN Undefined ELSE toLowerCase(s)

\* new Date(created_at), in hours UTC of 2025-10-04
DateValue(s) ==
    CASE s = "2025-10-04T08:00:00Z" -> 8
      [] s = "2025-10-04T09:00:00Z" -> 9
      [] s = "2025-10-04T11:00:00+02:00" -> 9
      [] s = "2025-10-04T10:00:00+02:00" -> 8
      [] OTHER -> 0

(***************************************************************************)
(* AlertsPanel.filterAlerts                                                *)
(***************************************************************************)
severityOrder(s) ==
    CASE s = "critical" -> 0
      [] s = "high" -> 1
      [] s = "medium" -> 2
      [] s = "low" -> 3
      [] OTHER -> 4

\* the recency operands swapped: oldest first inside a severity
compareAlerts_oldestFirst(a, b) ==
    LET severityA == severityOrder(OptLower(a.severity_level))
        severityB == severityOrder(OptLower(b.severity_level))
    IN IF severityA # severityB
       THEN severityA - severityB
       ELSE DateValue(a.created_at) - DateValue(b.created_at)

compareAlerts(a, b) ==
    LET severityA == severityOrder(OptLower(a.severity_level))
        severityB == severityOrder(OptLower(b.severity_level))
    IN IF severityA # severityB
       THEN severityA - severityB
       ELSE DateValue(b.created_at) - DateValue(a.created_at)

RECURSIVE InsertSorted(_, _)
\* insertion behind every element that does not compare greater: the stable
\* order Array.prototype.sort produces
InsertSorted(x, s) ==
    IF s = <<>> THEN <<x>>
    ELSE IF compareAlerts(s[1], x) <= 0
         THEN <<s[1]>> \o InsertSorted(x, Tail(s))
         ELSE <<x>> \o s

RECURSIVE sortAlerts(_)
sortAlerts(s) ==
    IF s = <<>> THEN <<>>
    ELSE InsertSorted(s[Len(s)], sortAlerts(SubSeq(s, 1, Len(s) - 1)))

\* the comparison without toLowerCase
matchesFilter_caseSensitive(alert, filter) ==
    filter = "all" \/ alert.severity_level = filter

matchesFilter(alert, filter) ==
    filter = "all" \/ OptLower(alert.severity_level) = toLowerCase(filter)

filterAlerts(alerts, filter) ==
    sortAlerts(SelectSeq(alerts, LAMBDA a : matchesFilter(a, filter)))


(***************************************************************************)
(* Geography: AlertsPanel.calculateDistance and the Geo-Relevance Filter   *)
(***************************************************************************)
\* coordinates in hundredths of a degree; the places a user can be at
LocationCatalogue ==
    <<[lat |-> -130, lng |-> 3680], [lat |-> 52, lng |-> 3527],
      [lat |-> 9000, lng |-> 18000], [lat |-> -9000, lng |-> -18000]>>

LocationPoint(loc) == LocationCatalogue[((loc - 1) % Len(LocationCatalogue)) + 1]

\* source region of the alerts, by alert id: region identifier, source point,
\* relevance radius in tenths of a kilometre
AlertSourceCatalogue ==
    <<[name |-> "R1", point |-> [lat |-> -129, lng |-> 3682], radius |-> 100],
      [name |-> "R2", point |-> [lat |-> -129, lng |-> 3682], radius |-> 100],
      [name |-> "R1", point |-> [lat |-> 51, lng |-> 3528], radius |-> 100],
      [name |-> "R2", point |-> [lat |-> 51, lng |-> 3528], radius |-> 100]>>

AlertSource(alertId) == AlertSourceCatalogue[((alertId - 1) % Len(AlertSourceCatalogue)) + 1]

\* the region the subscriber declared in the profile
SubscriberRegion == "R1"

\* (R * c).toFixed(1) of the haversine formula, in tenths of a kilometre
calculateDistance(a, b) ==
    CASE a = b -> 0
      [] {a, b} = {[lat |-> -130, lng |-> 3680], [lat |-> -129, lng |-> 3682]} -> 25
      [] {a, b} = {[lat |-> -130, lng |-> 3680], [lat |-> 51, lng |-> 3528]} -> 2628
      [] {a, b} = {[lat |-> 52, lng |-> 3527], [lat |-> -129, lng |-> 3682]} -> 2650
      [] {a, b} = {[lat |-> 52, lng |-> 3527], [lat |-> 51, lng |-> 3528]} -> 16
      [] {a, b} = {[lat |-> 9000, lng |-> 18000], [lat |-> -129, lng |-> 3682]} -> 101510
      [] {a, b} = {[lat |-> 9000, lng |-> 18000], [lat |-> 51, lng |-> 3528]} -> 99508
      [] {a, b} = {[lat |-> -9000, lng |-> -18000], [lat |-> -129, lng |-> 3682]} -> 98641
      [] {a, b} = {[lat |-> -9000, lng |-> -18000], [lat |-> 51, lng |-> 3528]} -> 100643
      \* the two source points of AlertSourceCatalogue
      [] OTHER -> 2634

withinRadius(alertId, loc) ==
    calculateDistance(LocationPoint(loc), AlertSource(alertId).point) <= AlertSource(alertId).radius

regionMatches(alertId, region) == AlertSource(alertId).name = region

\* region match demanded on top of the radius
relevant_radiusAndRegion(alertId, loc, region) ==
    withinRadius(alertId, loc) /\ regionMatches(alertId, region)

\* the Geo-Relevance Filter for a located subscriber
relevant(alertId, loc, region) ==
    withinRadius(alertId, loc) \/ regionMatches(alertId, region)

\* the configuration flag "include unlocated subscribers"
IncludeUnlocated == TRUE

\* the Feed Query Service: the alerts of the store relevant to the sender of
\* a request; loc = NoLocation is a request without lat and lon
feedQuery(store, loc, region) ==
    IF loc = NoLocation
    THEN IF IncludeUnlocated THEN store ELSE <<>>
    ELSE SelectSeq(store, LAMBDA a : relevant(a.id, loc, region))

RECURSIVE SubSeqsOf(_)
\* every subsequence of s
SubSeqsOf(s) ==
    IF s = <<>> THEN {<<>>}
    ELSE LET rest == SubSeqsOf(Tail(s))
         IN rest \cup {<<s[1]>> \o t : t \in rest}

\* what the Alert Store can hold when a feed request arrives
AlertStores(maxId) == SubSeqsOf([i \in 1..maxId |-> ServerAlert(i)])

(***************************************************************************)
(* State of the dashboard page                                             *)
(***************************************************************************)
VARIABLES
    page,              \* "dashboard" while App is alive, "login" after navigation
    navigating,        \* window.location.href was assigned, unload not yet done
    localStorage,      \* [keys: the items present, readAlerts: the parsed item]
    user,              \* App.user (NoLocation stands for null)
    userLocation,      \* App.userLocation
    unreadAlertsCount, \* App.unreadAlertsCount
    appLoading,        \* App.loading
    appError,          \* App.error
    currentView,       \* App.currentView
    profilePending,    \* the request of fetchUserProfile is in flight
    panel,             \* the two AlertsPanel instances App renders
    lastOp             \* the handler that ran last (observation only)

uiVars == <<page, navigating, localStorage, user, userLocation, unreadAlertsCount,
            appLoading, appError, currentView, profilePending, panel>>

VARIABLES
    userType,          \* user_type of the profile the backend holds for the session's user
    connectionLimit    \* requests of one panel the browser keeps in flight at a time

\* what a session is given and never changes
envVars == <<userType, connectionLimit>>

\* useState initial values of AlertsPanel; an instance that is not mounted
UnmountedPanel ==
    [mounted |-> FALSE, alerts |-> <<>>, filteredAlerts |-> <<>>, loading |-> FALSE,
     filter |-> "all", unreadCount |-> 0, error |-> NoError, pending |-> <<>>,
     timers |-> 0]

EmptyStorage == [keys |-> {}, readAlerts |-> <<>>]

\* JSON.parse(localStorage.getItem('readAlerts') || '[]')
ReadAlertsList(ls) == IF "readAlerts" \in ls.keys THEN ls.readAlerts ELSE <<>>

includes(list, x) == \E i \in 1..Len(list) : list[i] = x

isAlertRead(ls, alertId) == includes(ReadAlertsList(ls), alertId)

removeItem(ls, key) ==
    [keys |-> ls.keys \ {key},
     readAlerts |-> IF key = "readAlerts" THEN <<>> ELSE ls.readAlerts]

\* alerts.filter(alert => !isAlertRead(alert.id)).length
countUnread(alerts, ls) ==
    Cardinality({i \in 1..Len(alerts) : ~isAlertRead(ls, alerts[i].id)})

\* fetchAlerts sending the coordinates of a default place when userLocation is null
fetchAlerts_defaultCoordinates(pn, loc) ==
    [pn EXCEPT !.loading = TRUE, !.error = NoError,
               !.pending = Append(@, IF loc = NoLocation THEN 1 ELSE loc)]

\* setInterval(fetchAlerts, 300000): one more interval of the panel is active
setInterval(n) == n + 1

\* a cleanup that does not cancel the interval
clearInterval_forgotten(n) == n

\* the cleanup of the polling effect: clearInterval(interval)
clearInterval(n) == n - 1

\* the body of fetchAlerts up to the await: one more request in flight
fetchAlerts(pn, loc) ==
    [pn EXCEPT !.loading = TRUE, !.error = NoError, !.pending = Append(@, loc)]

\* a new instance: initial state, then the mount effects (fetchAlerts,
\* filterAlerts, unread count)
MountPanel(loc) ==
    [fetchAlerts([UnmountedPanel EXCEPT !.mounted = TRUE], loc) EXCEPT !.timers = setInterval(@)]

\* an instance is removed: React runs the cleanup of the polling effect
UnmountPanel(pn) ==
    IF pn.mounted THEN [UnmountedPanel EXCEPT !.timers = clearInterval(pn.timers)] ELSE pn

\* the userLocation effect of every mounted panel after setUserLocation
RefetchAll(pnl, loc) ==
    [p \in PanelIds |->
        IF pnl[p].mounted
        THEN [fetchAlerts(pnl[p], loc) EXCEPT !.timers = setInterval(clearInterval(@))]
        ELSE pnl[p]]

HasRoom(pn) == Len(pn.pending) < connectionLimit

Rendered == page = "dashboard" /\ ~appLoading /\ appError = NoError

RemoveAt(s, k) == SubSeq(s, 1, k - 1) \o SubSeq(s, k + 1, Len(s))

\* App as mounted by a page load (useState initial values, initializeApp called)
AppMounted ==
    /\ page' = "dashboard"
    /\ navigating' = FALSE
    /\ user' = NoLocation
    /\ userLocation' = NoLocation
    /\ unreadAlertsCount' = 0
    /\ appLoading' = TRUE
    /\ appError' = NoError
    /\ currentView' = "dashboard"
    /\ profilePending' = TRUE
    /\ panel' = [p \in PanelIds |-> UnmountedPanel]

UIInit ==
    /\ page = "dashboard"
    /\ navigating = FALSE
    /\ localStorage \in {EmptyStorage, [keys |-> {"token", "user"}, readAlerts |-> <<>>]}
    /\ user = NoLocation
    /\ userLocation = NoLocation
    /\ unreadAlertsCount = 0
    /\ appLoading = TRUE
    /\ appError = NoError
    /\ currentView = "dashboard"
    /\ profilePending = TRUE
    /\ panel = [p \in PanelIds |-> UnmountedPanel]


(***************************************************************************)
(* App                                                                     *)
(***************************************************************************)
\* initializeApp / fetchUserProfile: the profile arrives; latitude and
\* longitude are set (loc in Locations) or missing (loc = NoLocation)
ProfileLoaded(loc) ==
    /\ page = "dashboard" /\ profilePending
    /\ profilePending' = FALSE
    /\ user' = 1
    /\ userLocation' = loc
    /\ appLoading' = FALSE
    /\ panel' = [panel EXCEPT !["side"] = MountPanel(loc)]
    /\ UNCHANGED <<page, navigating, localStorage, unreadAlertsCount, appError, currentView>>

\* fetchUserProfile catches a 401: localStorage.clear() and the redirect;
\* it returns normally, so initializeApp goes on to setLoading(false)
ProfileUnauthorized ==
    /\ page = "dashboard" /\ profilePending
    /\ profilePending' = FALSE
    /\ localStorage' = EmptyStorage
    /\ navigating' = TRUE
    /\ appLoading' = FALSE
    /\ panel' = [panel EXCEPT !["side"] = MountPanel(userLocation)]
    /\ UNCHANGED <<page, user, userLocation, unreadAlertsCount, appError, currentView>>

\* fetchUserProfile catches any other error and only logs it
ProfileFailed ==
    /\ page = "dashboard" /\ profilePending
    /\ profilePending' = FALSE
    /\ appLoading' = FALSE
    /\ panel' = [panel EXCEPT !["side"] = MountPanel(userLocation)]
    /\ UNCHANGED <<page, navigating, localStorage, user, userLocation, unreadAlertsCount,
                   appError, currentView>>

\* handleLocationUpdate clearing local storage the way handleLogout does
handleLocationUpdate_clearsStorage(loc) ==
    /\ Rendered
    /\ \A p \in PanelIds : panel[p].mounted => HasRoom(panel[p])
    /\ userLocation' = loc
    /\ localStorage' = EmptyStorage
    /\ panel' = RefetchAll(panel, loc)
    /\ UNCHANGED <<page, navigating, user, unreadAlertsCount, appLoading,
                   appError, currentView, profilePending>>

\* App.handleLocationUpdate, called by LocationManager and MapView with a new
\* location object; every mounted AlertsPanel re-runs its userLocation effect
handleLocationUpdate(loc) ==
    /\ Rendered
    /\ \A p \in PanelIds : panel[p].mounted => HasRoom(panel[p])
    /\ userLocation' = loc
    /\ panel' = RefetchAll(panel, loc)
    /\ UNCHANGED <<page, navigating, localStorage, user, unreadAlertsCount, appLoading,
                   appError, currentView, profilePending>>

\* the Quick Navigation buttons: the main AlertsPanel exists in the alerts view only
setCurrentView(view) ==
    /\ Rendered
    /\ view # currentView
    /\ currentView' = view
    /\ panel' = [panel EXCEPT !["main"] =
                    IF view = "alerts" THEN MountPanel(userLocation) ELSE UnmountPanel(@)]
    /\ UNCHANGED <<page, navigating, localStorage, user, userLocation, unreadAlertsCount,
                   appLoading, appError, profilePending>>

\* App.handleLogout, the onLogout callback of Navbar
AppHandleLogout ==
    /\ user' = NoLocation
    /\ userLocation' = NoLocation
    /\ localStorage' = EmptyStorage
    /\ navigating' = TRUE
    /\ panel' = IF userLocation # NoLocation THEN RefetchAll(panel, NoLocation) ELSE panel

(***************************************************************************)
(* Navbar                                                                  *)
(***************************************************************************)
\* Navbar.handleLogout. toast: "ok" (the toast or the alert box returns),
\* "throws" (window.showToast throws in the try block, not in the catch
\* block), "throwsTwice" (it throws in both, and the second leaves the handler)
NavbarHandleLogout(toast) ==
    /\ Rendered
    /\ LET cleared == removeItem(removeItem(localStorage, "user"), "readAlerts")
           \* the catch block runs after the two removeItem calls of the try block
           caught == removeItem(removeItem(removeItem(cleared, "token"), "user"), "readAlerts")
       IN CASE toast = "ok" ->
                 /\ userLocation # NoLocation =>
                        \A p \in PanelIds : panel[p].mounted => HasRoom(panel[p])
                 /\ AppHandleLogout
            [] toast = "throws" ->
                 /\ localStorage' = caught
                 /\ navigating' = TRUE
                 /\ UNCHANGED <<user, userLocation, panel>>
            [] OTHER ->
                 /\ localStorage' = caught
                 /\ UNCHANGED <<navigating, user, userLocation, panel>>
    /\ UNCHANGED <<page, unreadAlertsCount, appLoading, appError, currentView, profilePending>>

(***************************************************************************)
(* AlertsPanel                                                             *)
(***************************************************************************)
\* an interval of the panel fires
Poll(p) ==
    /\ Rendered /\ panel[p].timers > 0 /\ HasRoom(panel[p])
    /\ panel' = [panel EXCEPT ![p] = fetchAlerts(@, userLocation)]
    /\ UNCHANGED <<page, navigating, localStorage, user, userLocation, unreadAlertsCount,
                   appLoading, appError, currentView, profilePending>>

\* the refresh button (disabled while loading) and the Try again link
\* (rendered while error is set)
Refresh(p) ==
    /\ Rendered /\ panel[p].mounted /\ HasRoom(panel[p])
    /\ ~panel[p].loading
    /\ panel' = [panel EXCEPT ![p] = fetchAlerts(@, userLocation)]
    /\ UNCHANGED <<page, navigating, localStorage, user, userLocation, unreadAlertsCount,
                   appLoading, appError, currentView, profilePending>>

\* a fetch that records every returned alert as read
FetchSucceeded_marksRead(p, k, feed) ==
    /\ page = "dashboard" /\ panel[p].mounted
    /\ k \in 1..Len(panel[p].pending)
    /\ localStorage' = [keys |-> localStorage.keys \cup {"readAlerts"},
                        readAlerts |-> ReadAlertsList(localStorage) \o
                            SelectSeq([i \in 1..Len(feed) |-> feed[i].id],
                                      LAMBDA id : ~includes(ReadAlertsList(localStorage), id))]
    /\ panel' = [panel EXCEPT ![p] =
                    [@ EXCEPT !.pending = RemoveAt(@, k),
                              !.alerts = feed,
                              !.loading = FALSE,
                              !.filteredAlerts = filterAlerts(feed, panel[p].filter),
                              !.unreadCount = 0]]
    /\ UNCHANGED <<page, navigating, user, userLocation, unreadAlertsCount,
                   appLoading, appError, currentView, profilePending>>

\* fetchAlerts after the await, try branch: request k of panel p is answered
\* with feed; then the [alerts, filter] and [alerts] effects run
FetchSucceeded(p, k, feed) ==
    /\ page = "dashboard" /\ panel[p].mounted
    /\ k \in 1..Len(panel[p].pending)
    /\ panel' = [panel EXCEPT ![p] =
                    [@ EXCEPT !.pending = RemoveAt(@, k),
                              !.alerts = feed,
                              !.loading = FALSE,
                              !.filteredAlerts = filterAlerts(feed, panel[p].filter),
                              !.unreadCount = countUnread(feed, localStorage)]]
    /\ UNCHANGED <<page, navigating, localStorage, user, userLocation, unreadAlertsCount,
                   appLoading, appError, currentView, profilePending>>

\* a catch branch that also empties the list
FetchFailed_clearsAlerts(p, k) ==
    /\ page = "dashboard" /\ panel[p].mounted
    /\ k \in 1..Len(panel[p].pending)
    /\ panel' = [panel EXCEPT ![p] =
                    [@ EXCEPT !.pending = RemoveAt(@, k),
                              !.alerts = <<>>,
                              !.filteredAlerts = <<>>,
                              !.unreadCount = 0,
                              !.error = FetchErrorMessage,
                              !.loading = FALSE]]
    /\ UNCHANGED <<page, navigating, localStorage, user, userLocation, unreadAlertsCount,
                   appLoading, appError, currentView, profilePending>>

\* fetchAlerts after the await, catch branch
FetchFailed(p, k) ==
    /\ page = "dashboard" /\ panel[p].mounted
    /\ k \in 1..Len(panel[p].pending)
    /\ panel' = [panel EXCEPT ![p] =
                    [@ EXCEPT !.pending = RemoveAt(@, k),
                              !.error = FetchErrorMessage,
                              !.loading = FALSE]]
    /\ UNCHANGED <<page, navigating, localStorage, user, userLocation, unreadAlertsCount,
                   appLoading, appError, currentView, profilePending>>

\* a filter tab is clicked; the [alerts, filter] effect runs filterAlerts
setFilter(p, key) ==
    /\ Rendered /\ panel[p].mounted
    /\ key # panel[p].filter
    /\ panel' = [panel EXCEPT ![p] =
                    [@ EXCEPT !.filter = key,
                              !.filteredAlerts = filterAlerts(panel[p].alerts, key)]]
    /\ UNCHANGED <<page, navigating, localStorage, user, userLocation, unreadAlertsCount,
                   appLoading, appError, currentView, profilePending>>

\* the red block with the message and the Try again link is rendered
errorShown(pn) == pn.mounted /\ pn.error # NoError

\* the "No alerts found" block is rendered
emptyStateShown(pn) ==
    pn.mounted /\ ~pn.loading /\ Len(pn.filteredAlerts) = 0 /\ pn.error = NoError

\* readAlerts.push(alertId); localStorage.setItem('readAlerts', ...)
pushReadAlert(ls, alertId) ==
    [keys |-> ls.keys \cup {"readAlerts"},
     readAlerts |-> Append(ReadAlertsList(ls), alertId)]

\* markAsRead without its includes test
alreadyRead_unchecked(ls, alertId) == FALSE

\* the guard of markAsRead
alreadyRead(ls, alertId) == includes(ReadAlertsList(ls), alertId)

\* Math.max(0, prev - 1)
decrementUnread(prev) == IF prev - 1 > 0 THEN prev - 1 ELSE 0

\* the row of alert alertId in panel p is clicked: markAsRead(alertId)
markAsRead(p, alertId) ==
    /\ Rendered /\ panel[p].mounted
    /\ alertId \in IdsOf(panel[p].filteredAlerts)
    /\ IF ~alreadyRead(localStorage, alertId)
       THEN /\ localStorage' = pushReadAlert(localStorage, alertId)
            /\ panel' = [panel EXCEPT ![p].unreadCount = decrementUnread(@)]
       ELSE UNCHANGED <<localStorage, panel>>
    /\ UNCHANGED <<page, navigating, user, userLocation, unreadAlertsCount,
                   appLoading, appError, currentView, profilePending>>

(***************************************************************************)
(* The browser                                                             *)
(***************************************************************************)
\* the navigation started by window.location.href completes: App is gone
PageUnload ==
    /\ page = "dashboard" /\ navigating
    /\ page' = "login"
    /\ navigating' = FALSE
    /\ user' = NoLocation
    /\ userLocation' = NoLocation
    /\ unreadAlertsCount' = 0
    /\ appLoading' = FALSE
    /\ appError' = NoError
    /\ currentView' = "dashboard"
    /\ profilePending' = FALSE
    /\ panel' = [p \in PanelIds |-> UnmountedPanel]
    /\ UNCHANGED localStorage

\* the dashboard is opened again after a login, or reloaded; local storage
\* outlives the page
PageLoad ==
    /\ page = "login" \/ (page = "dashboard" /\ ~navigating)
    /\ AppMounted
    /\ UNCHANGED localStorage


(***************************************************************************)
(* Alert lifecycle and delivery pipeline (server side)                     *)
(***************************************************************************)
\* alerts the store may hold
MaxStored == 2
\* last instant of the clock
MaxTime == 3
\* cooldown duration, in clock ticks
CooldownWindow == 2
\* maximum attempt count of a DeliveryAttempt (configurable; any value >= 1)
MaxAttempts == 2

NoAlert == 0
CooldownKeys == {"R1/drought_risk"}
SignalValues == {4, 6, 8}
DedupWorkers == {"w1", "w2"}
Senders == {"s1", "s2"}
SendResults == {"accepted", "transient_error", "rejected"}

VARIABLES
    clock,       \* current time
    alertStore,  \* the Alert records, in creation order; id = position
    worker,      \* the signal each deduplicator worker is processing
    attempts,    \* the DeliveryAttempt records
    sender       \* the attempt each dispatch worker is sending (0: none)

beVars == <<clock, alertStore, worker, attempts, sender>>

IdleWorker == [pc |-> "idle", key |-> "", severity |-> "", seen |-> NoAlert, retried |-> FALSE]

\* Severity Classifier on a drought risk score
classify(value) ==
    IF value >= 8 THEN "critical"
    ELSE IF value >= 6 THEN "high"
    ELSE IF value >= 4 THEN "medium"
    ELSE "low"

\* a is strictly more severe than b
MoreSevere(a, b) == severityOrder(a) < severityOrder(b)

InWindow(alert, now) == now - alert.createdAt < CooldownWindow

\* ids of the alerts of a cooldown key that carry the active flag
ActiveIds(store, key) ==
    {i \in 1..Len(store) : store[i].key = key /\ store[i].state = "active"}

\* the Deduplicator's query: an active alert of the key created within the window
ActiveInWindow(store, key, now) ==
    LET ids == {i \in ActiveIds(store, key) : InWindow(store[i], now)}
    IN IF ids = {} THEN NoAlert ELSE CHOOSE i \in ids : TRUE

\* active alerts whose window has passed lose the flag when the key is written
expireOld(store, key, now) ==
    [i \in 1..Len(store) |->
        IF store[i].key = key /\ store[i].state = "active" /\ ~InWindow(store[i], now)
        THEN [store[i] EXCEPT !.state = "expired"]
        ELSE store[i]]

\* the store without its uniqueness constraint
violatesUnique_unconstrained(store, key) == FALSE

\* the uniqueness constraint on (cooldown key, active flag)
violatesUnique(store, key) == ActiveIds(store, key) # {}

newAlert(store, key, severity, now) ==
    [id |-> Len(store) + 1, key |-> key, severity |-> severity,
     state |-> "active", createdAt |-> now]

\* supersession dropping the prior record
supersede_deletes(store, prior, key, severity, now) ==
    LET kept == SelectSeq(store, LAMBDA a : a.id # prior)
    IN Append(kept, [id |-> Len(store) + 1, key |-> key, severity |-> severity,
                     state |-> "active", createdAt |-> now])

\* the prior alert is marked superseded and kept; the new one becomes active
supersede(store, prior, key, severity, now) ==
    Append([store EXCEPT ![prior].state = "superseded"],
           newAlert(store, key, severity, now))

\* suppression test that lets an equal severity supersede
suppresses_equalSupersedes(priorSeverity, severity) == MoreSevere(priorSeverity, severity)

\* a signal is suppressed by an active alert of equal or higher severity
suppresses(priorSeverity, severity) == ~MoreSevere(severity, priorSeverity)

Busy == {w \in DedupWorkers : worker[w].pc # "idle"}

\* a hazard signal is classified and handed to a worker
Receive(w, key, value) ==
    /\ worker[w].pc = "idle"
    /\ Len(alertStore) + Cardinality(Busy) < MaxStored
    /\ worker' = [worker EXCEPT ![w] =
                     [pc |-> "check", key |-> key, severity |-> classify(value),
                      seen |-> NoAlert, retried |-> FALSE]]
    /\ UNCHANGED <<clock, alertStore, attempts, sender>>

\* the existence check; a signal that finds an equal or more severe active
\* alert is suppressed here
Check(w) ==
    /\ worker[w].pc = "check"
    /\ LET prior == ActiveInWindow(alertStore, worker[w].key, clock)
       IN IF prior # NoAlert /\ suppresses(alertStore[prior].severity, worker[w].severity)
          THEN worker' = [worker EXCEPT ![w] = IdleWorker]
          ELSE worker' = [worker EXCEPT ![w].pc = "write", ![w].seen = prior]
    /\ UNCHANGED <<clock, alertStore, attempts, sender>>

\* the write found the key changed since the check
Conflict(w) ==
    LET me == worker[w]
        store == expireOld(alertStore, me.key, clock)
    IN IF me.seen = NoAlert
       THEN violatesUnique(store, me.key)
       ELSE store[me.seen].state # "active"

\* the conditional write: create, supersede, or fail and go back to the
\* check (the update-check cycle; a repeated failure is a logged anomaly)
Write(w) ==
    /\ worker[w].pc = "write"
    /\ LET me == worker[w]
           store == expireOld(alertStore, me.key, clock)
       IN IF Conflict(w)
          THEN /\ alertStore' = alertStore
               /\ worker' = [worker EXCEPT ![w] =
                                [me EXCEPT !.pc = "check", !.seen = NoAlert, !.retried = TRUE]]
          ELSE /\ alertStore' =
                      IF me.seen = NoAlert
                      THEN Append(store, newAlert(store, me.key, me.severity, clock))
                      ELSE supersede(store, me.seen, me.key, me.severity, clock)
               /\ worker' = [worker EXCEPT ![w] = IdleWorker]
    /\ UNCHANGED <<clock, attempts, sender>>

Tick ==
    /\ clock < MaxTime
    /\ clock' = clock + 1
    /\ UNCHANGED <<alertStore, worker, attempts, sender>>

(***************************************************************************)
(* Dispatch Fan-Out                                                        *)
(***************************************************************************)
\* fan-out that never looks for an existing attempt
hasAttempt_never(atts, alertId, sub, chan) == FALSE

hasAttempt(atts, alertId, sub, chan) ==
    \E i \in 1..Len(atts) :
        atts[i].alert = alertId /\ atts[i].subscriber = sub /\ atts[i].channel = chan

\* the active flag test of a sender left out
alertIsActive_unchecked(store, alertId) == TRUE

\* the active flag of the alert, read from the Alert Store
alertIsActive(store, alertId) == store[alertId].state = "active"

\* a sender taking an attempt another sender already holds
isFree_unlocked(snd, i) == TRUE

\* no dispatch worker is sending attempt i
isFree(snd, i) == \A s \in Senders : snd[s] # i

\* the ceiling test off by one
reachedCeiling_late(count) == count > MaxAttempts

reachedCeiling(count) == count >= MaxAttempts

PairSeq == <<<<"S", "web">>, <<"S", "sms">>>>

RECURSIVE fanOut(_, _, _)
\* one pending DeliveryAttempt for every (subscriber, channel) pair that has none
fanOut(atts, alertId, pairs) ==
    IF pairs = <<>> THEN atts
    ELSE LET pr == pairs[1]
             next == IF hasAttempt(atts, alertId, pr[1], pr[2])
                     THEN atts
                     ELSE Append(atts, [alert |-> alertId, subscriber |-> pr[1],
                                        channel |-> pr[2], state |-> "pending", count |-> 0])
         IN fanOut(next, alertId, Tail(pairs))

\* dispatch is invoked (again) for an alert
Dispatch(alertId) ==
    /\ alertId \in 1..Len(alertStore)
    /\ attempts' = IF alertIsActive(alertStore, alertId)
                   THEN fanOut(attempts, alertId, PairSeq)
                   ELSE attempts
    /\ UNCHANGED <<clock, alertStore, worker, sender>>

\* a dispatch worker takes a pending attempt and calls the channel adapter
StartSend(s, i) ==
    /\ sender[s] = 0
    /\ i \in 1..Len(attempts)
    /\ attempts[i].state = "pending"
    /\ isFree(sender, i)
    /\ alertIsActive(alertStore, attempts[i].alert)
    /\ sender' = [sender EXCEPT ![s] = i]
    /\ UNCHANGED <<clock, alertStore, worker, attempts>>

\* a rejected send handled like a transient failure
afterSend_retriesRejected(att, result) ==
    IF result = "accepted"
    THEN [att EXCEPT !.state = IF att.channel = "web" THEN "delivered" ELSE "sent"]
    ELSE [att EXCEPT !.count = att.count + 1,
                     !.state = IF reachedCeiling(att.count + 1) THEN "failed" ELSE "pending"]

\* the state of an attempt after the adapter answered
afterSend(att, result) ==
    CASE result = "accepted" ->
            [att EXCEPT !.state = IF att.channel = "web" THEN "delivered" ELSE "sent"]
      [] result = "rejected" -> [att EXCEPT !.state = "failed"]
      [] OTHER ->
            [att EXCEPT !.count = att.count + 1,
                        !.state = IF reachedCeiling(att.count + 1) THEN "failed" ELSE "pending"]

\* the channel adapter returns
SendDone(s, result) ==
    /\ sender[s] # 0
    /\ attempts' = [attempts EXCEPT ![sender[s]] = afterSend(@, result)]
    /\ sender' = [sender EXCEPT ![s] = 0]
    /\ UNCHANGED <<clock, alertStore, worker>>

\* the delivery confirmation callback of a fire-and-forget channel
DeliveryConfirmed(i) ==
    /\ i \in 1..Len(attempts)
    /\ attempts[i].state = "sent"
    /\ attempts' = [attempts EXCEPT ![i].state = "delivered"]
    /\ UNCHANGED <<clock, alertStore, worker, sender>>

PipelineInit ==
    /\ clock = 0
    /\ alertStore = <<>>
    /\ worker = [w \in DedupWorkers |-> IdleWorker]
    /\ attempts = <<>>
    /\ sender = [s \in Senders |-> 0]

(***************************************************************************)
(* Specifications of the dashboard                                         *)
(***************************************************************************)
Views == {"dashboard", "map", "alerts"}
ToastOutcomes == {"ok", "throws", "throwsTwice"}

VARIABLE
    lastQuery    \* the feed request answered last: store and lat/lon (observation only)

VARIABLES
    riskSummary,   \* WelcomeCard.riskSummary: risk_score in tenths, or NoRisk (null)
    cardLoading,   \* WelcomeCard.loading
    cardPending    \* calls of fetchLocationData that have not returned

wcVars == <<riskSummary, cardLoading, cardPending>>

VARIABLES
    lm,                    \* the state of LocationManager
    lmTimer,               \* the setTimeout of requestLocationOnMount has not fired
    geoPending,            \* getCurrentPosition calls of LocationManager not answered
    mapPending,            \* getCurrentPosition calls of MapView not answered
    savePending,           \* POST /core/api/location/ requests in flight: the coordinates
    geolocationSupported,  \* 'geolocation' in navigator
    submitted              \* manualCoords of the submission that was the last step (observation only)

lmVars == <<lm, lmTimer, geoPending, mapPending, savePending, geolocationSupported, submitted>>

\* the parts of the system a step of one component leaves alone
aside == <<lastQuery, wcVars, lmVars>>

NoQuery == [store |-> <<>>, loc |-> NoLocation]

\* useState initial values of WelcomeCard
NoRisk == -1
WelcomeInit == riskSummary = NoRisk /\ cardLoading = FALSE /\ cardPending = 0

\* LocationManager before App renders it (manualCoords, the text in the two
\* inputs, is an input of handleManualSubmit)
UnmountedLocationManager ==
    [mounted |-> FALSE, location |-> NoLocation, isGettingLocation |-> FALSE,
     error |-> NoError, showManualEntry |-> FALSE,
     permissionStatus |-> "unknown", isSaving |-> FALSE]

NoCoords == [lat |-> "", lng |-> ""]

LocationInit ==
    /\ submitted = NoCoords
    /\ lm = UnmountedLocationManager
    /\ lmTimer = FALSE
    /\ geoPending = 0
    /\ mapPending = 0
    /\ savePending = <<>>

vars == <<uiVars, envVars, lastOp, beVars, lastQuery, wcVars, lmVars>>

\* everything but the browser's geolocation support
Start ==
    /\ UIInit /\ lastOp = "load" /\ PipelineInit /\ lastQuery = NoQuery
    /\ WelcomeInit /\ LocationInit

\* a farmer's session in a browser that keeps MaxInFlight requests of a panel open
Init ==
    /\ Start /\ geolocationSupported = TRUE
    /\ userType = "farmer" /\ connectionLimit = MaxInFlight

\* a dashboard handler ran; the pipeline is another process
Ran(op) == lastOp' = op /\ UNCHANGED <<beVars, envVars, aside>>

\* the dashboard and map views over a whole session: the right-column
\* panel, location updates, logout, page loads
Next ==
    \/ \E loc \in Locations \cup {NoLocation} : ProfileLoaded(loc) /\ Ran("ProfileLoaded")
    \/ ProfileUnauthorized /\ Ran("ProfileUnauthorized")
    \/ ProfileFailed /\ Ran("ProfileFailed")
    \/ \E loc \in Locations : handleLocationUpdate(loc) /\ Ran("handleLocationUpdate")
    \/ \E view \in Views \ {"alerts"} : setCurrentView(view) /\ Ran("setCurrentView")
    \/ \E toast \in ToastOutcomes : NavbarHandleLogout(toast) /\ Ran("handleLogout")
    \/ \E p \in PanelIds : Poll(p) /\ Ran("fetchAlerts")
    \/ \E p \in PanelIds : Refresh(p) /\ Ran("fetchAlerts")
    \/ \E p \in PanelIds, k \in 1..MaxInFlight, feed \in ServerFeeds(MaxAlertId) :
          FetchSucceeded(p, k, feed) /\ Ran("FetchSucceeded")
    \/ \E p \in PanelIds, k \in 1..MaxInFlight : FetchFailed(p, k) /\ Ran("FetchFailed")
    \/ \E p \in PanelIds, key \in {"all", "critical"} : setFilter(p, key) /\ Ran("setFilter")
    \/ \E p \in PanelIds, alertId \in 1..MaxAlertId :
          /\ markAsRead(p, alertId)
          /\ Ran(IF includes(ReadAlertsList(localStorage), alertId)
                 THEN "markAsReadAgain" ELSE "markAsRead")
    \/ PageUnload /\ Ran("unload")
    \/ PageLoad /\ Ran("load")

Spec == Init /\ [][Next]_vars

\* a session without logout: both panels over the shared readAlerts item
PanelsNext ==
    \/ \E loc \in Locations \cup {NoLocation} : ProfileLoaded(loc) /\ Ran("ProfileLoaded")
    \/ \E view \in Views : setCurrentView(view) /\ Ran("setCurrentView")
    \/ \E p \in PanelIds : Poll(p) /\ Ran("fetchAlerts")
    \/ \E p \in PanelIds, k \in 1..MaxInFlight, feed \in ServerFeeds(MaxAlertId) :
          FetchSucceeded(p, k, feed) /\ Ran("FetchSucceeded")
    \/ \E p \in PanelIds, k \in 1..MaxInFlight : FetchFailed(p, k) /\ Ran("FetchFailed")
    \/ \E p \in PanelIds, alertId \in 1..MaxAlertId :
          /\ markAsRead(p, alertId)
          /\ Ran(IF includes(ReadAlertsList(localStorage), alertId)
                 THEN "markAsReadAgain" ELSE "markAsRead")

PanelsSpec == Init /\ [][PanelsNext]_vars

\* one panel, every order and subset of a feed of MaxFeedId alerts, every filter tab
FeedNext ==
    \/ ProfileLoaded(NoLocation) /\ Ran("ProfileLoaded")
    \/ Poll("side") /\ Ran("fetchAlerts")
    \/ \E k \in 1..MaxInFlight, feed \in ServerFeeds(MaxFeedId) :
          FetchSucceeded("side", k, feed) /\ Ran("FetchSucceeded")
    \/ \E k \in 1..MaxInFlight : FetchFailed("side", k) /\ Ran("FetchFailed")
    \/ \E key \in FilterKeys : setFilter("side", key) /\ Ran("setFilter")

FeedSpec == Init /\ [][FeedNext]_vars

\* the Feed Query Service answers request k of panel p from the Alert Store
FeedServed(p, k, store) ==
    /\ k \in 1..Len(panel[p].pending)
    /\ FetchSucceeded(p, k, feedQuery(store, panel[p].pending[k], SubscriberRegion))
    /\ lastQuery' = [store |-> store, loc |-> panel[p].pending[k]]
    /\ lastOp' = "FeedServed"
    /\ UNCHANGED <<beVars, envVars, wcVars, lmVars>>

\* one panel whose requests the Feed Query Service answers, the user moving
\* between places
GeoNext ==
    \/ \E loc \in Locations \cup {NoLocation} : ProfileLoaded(loc) /\ Ran("ProfileLoaded")
    \/ \E loc \in Locations : handleLocationUpdate(loc) /\ Ran("handleLocationUpdate")
    \/ Poll("side") /\ Ran("fetchAlerts")
    \/ Refresh("side") /\ Ran("fetchAlerts")
    \/ \E k \in 1..MaxInFlight, store \in AlertStores(MaxFeedId) : FeedServed("side", k, store)
    \/ \E k \in 1..MaxInFlight : FetchFailed("side", k) /\ Ran("FetchFailed")

GeoSpec == Init /\ [][GeoNext]_vars

\* mounting, unmounting and location changes of the two panels, with polling
TimerNext ==
    \/ \E loc \in Locations \cup {NoLocation} : ProfileLoaded(loc) /\ Ran("ProfileLoaded")
    \/ \E loc \in Locations : handleLocationUpdate(loc) /\ Ran("handleLocationUpdate")
    \/ \E view \in Views : setCurrentView(view) /\ Ran("setCurrentView")
    \/ \E p \in PanelIds : Poll(p) /\ Ran("Poll")
    \/ \E p \in PanelIds, k \in 1..MaxInFlight, feed \in ServerFeeds(MaxAlertId) :
          FetchSucceeded(p, k, feed) /\ Ran("FetchSucceeded")
    \/ \E p \in PanelIds, k \in 1..MaxInFlight : FetchFailed(p, k) /\ Ran("FetchFailed")

TimerSpec == Init /\ [][TimerNext]_vars

(***************************************************************************)
(* LocationManager and the My Location button of MapView                   *)
(***************************************************************************)
\* the not-a-number a parse returns, as a value no coordinate has
NaN == 99999

isNaN(x) == x = NaN

\* parseFloat on what the number inputs can hold, in hundredths of a degree
parseFloat(s) ==
    CASE s = "-1.30" -> -130
      [] s = "36.80" -> 3680
      [] s = "0.52" -> 52
      [] s = "35.27" -> 3527
      [] s = "90" -> 9000
      [] s = "180" -> 18000
      [] s = "-90" -> -9000
      [] s = "-180" -> -18000
      [] s = "90.01" -> 9001
      [] s = "-90.01" -> -9001
      [] s = "180.01" -> 18001
      [] s = "-180.01" -> -18001
      [] OTHER -> NaN

\* what the user leaves in the two inputs: the places of LocationCatalogue,
\* a field left empty, a value just beyond each limit
ManualEntries ==
    {[lat |-> "-1.30", lng |-> "36.80"], [lat |-> "0.52", lng |-> "35.27"],
     [lat |-> "90", lng |-> "180"], [lat |-> "-90", lng |-> "-180"],
     [lat |-> "", lng |-> "36.80"], [lat |-> "-1.30", lng |-> ""],
     [lat |-> "90.01", lng |-> "36.80"], [lat |-> "-90.01", lng |-> "36.80"],
     [lat |-> "-1.30", lng |-> "180.01"], [lat |-> "-1.30", lng |-> "-180.01"]}

\* the location object { lat, lng } as a place of LocationCatalogue
placeOf(lat, lng) ==
    CHOOSE i \in 1..Len(LocationCatalogue) : LocationCatalogue[i] = [lat |-> lat, lng |-> lng]

InvalidCoordsMessage == "Please enter valid coordinates."
RangeMessage ==
    "Please enter valid coordinates (latitude: -90 to 90, longitude: -180 to 180)."
UnsupportedMessage == "Geolocation is not supported by this browser."
GeolocationErrorCodes == {"PERMISSION_DENIED", "POSITION_UNAVAILABLE", "TIMEOUT", "UNKNOWN"}

geolocationErrorMessage(code) ==
    CASE code = "PERMISSION_DENIED" ->
            "Location access denied. Please enable location services or enter coordinates manually."
      [] code = "POSITION_UNAVAILABLE" ->
            "Location information is unavailable. Please try again or enter coordinates manually."
      [] code = "TIMEOUT" ->
            "Location request timed out. Please try again or enter coordinates manually."
      [] OTHER -> "An unknown error occurred while getting location."

\* App renders LocationManager: useState initial values and the mount effect
\* (requestLocationOnMount arms its timeout when there is no location; the
\* answer of checkLocationPermission only changes the permission line shown)
LMMount(initialLocation) ==
    /\ lm' = [UnmountedLocationManager EXCEPT !.mounted = TRUE, !.location = initialLocation]
    /\ lmTimer' = (initialLocation = NoLocation /\ geolocationSupported)
    /\ UNCHANGED <<geoPending, mapPending, savePending, geolocationSupported>>

\* requestLocation(showLoading)
requestLocation(showLoading) ==
    /\ IF ~geolocationSupported
       THEN /\ lm' = [lm EXCEPT !.error = UnsupportedMessage, !.showManualEntry = TRUE]
            /\ UNCHANGED geoPending
       ELSE /\ geoPending < MaxInFlight
            /\ lm' = [lm EXCEPT !.isGettingLocation = showLoading \/ @, !.error = NoError]
            /\ geoPending' = geoPending + 1
    /\ UNCHANGED <<uiVars, mapPending, savePending, geolocationSupported>>

\* the timeout of requestLocationOnMount fires: requestLocation(false)
LocationTimerFires ==
    /\ page = "dashboard" /\ lm.mounted /\ lmTimer
    /\ lmTimer' = FALSE
    /\ requestLocation(FALSE)

\* the Get My Location / Update button (disabled while isGettingLocation)
ClickGetLocation ==
    /\ Rendered /\ lm.mounted
    /\ ~lm.showManualEntry /\ ~lm.isGettingLocation
    /\ requestLocation(TRUE)
    /\ UNCHANGED lmTimer

\* saveLocationToBackend up to the await
saveLocationToBackend(pnd, locationData) == Append(pnd, locationData)

\* the success callback of getCurrentPosition in LocationManager
GeolocationSuccess(loc) ==
    /\ lm.mounted /\ geoPending > 0
    /\ Len(savePending) < MaxInFlight
    /\ lm' = [lm EXCEPT !.location = loc, !.isGettingLocation = FALSE, !.error = NoError,
                        !.showManualEntry = FALSE, !.isSaving = TRUE]
    /\ handleLocationUpdate(loc)
    /\ savePending' = saveLocationToBackend(savePending, loc)
    /\ geoPending' = geoPending - 1
    /\ UNCHANGED <<lmTimer, mapPending, geolocationSupported>>

\* an error callback whose default case does not open the manual entry form
GeolocationError_noFormOnUnknown(code) ==
    /\ page = "dashboard" /\ lm.mounted /\ geoPending > 0
    /\ lm' = [lm EXCEPT !.isGettingLocation = FALSE,
                        !.permissionStatus = IF code = "PERMISSION_DENIED" THEN "denied" ELSE @,
                        !.showManualEntry = IF code = "UNKNOWN" THEN @ ELSE TRUE,
                        !.error = geolocationErrorMessage(code)]
    /\ geoPending' = geoPending - 1
    /\ UNCHANGED <<uiVars, lmTimer, mapPending, savePending, geolocationSupported>>

\* the error callback of getCurrentPosition in LocationManager
GeolocationError(code) ==
    /\ page = "dashboard" /\ lm.mounted /\ geoPending > 0
    /\ lm' = [lm EXCEPT !.isGettingLocation = FALSE,
                        !.permissionStatus = IF code = "PERMISSION_DENIED" THEN "denied" ELSE @,
                        !.showManualEntry = TRUE,
                        !.error = geolocationErrorMessage(code)]
    /\ geoPending' = geoPending - 1
    /\ UNCHANGED <<uiVars, lmTimer, mapPending, savePending, geolocationSupported>>

\* the pencil, Enter Manually and close buttons
setShowManualEntry(shown) ==
    /\ Rendered /\ lm.mounted
    /\ shown # lm.showManualEntry
    /\ lm' = [lm EXCEPT !.showManualEntry = shown]
    /\ UNCHANGED <<uiVars, lmTimer, geoPending, mapPending, savePending, geolocationSupported>>

\* limits that leave out -90, 90, -180 and 180
inRange_exclusive(lat, lng) == ~(lat <= -9000 \/ lat >= 9000 \/ lng <= -18000 \/ lng >= 18000)

\* the range test of handleManualSubmit, in hundredths of a degree
inRange(lat, lng) == ~(lat < -9000 \/ lat > 9000 \/ lng < -18000 \/ lng > 18000)

\* the form is submitted with manualCoords in its two inputs
handleManualSubmit(manualCoords) ==
    /\ Rendered /\ lm.mounted /\ lm.showManualEntry
    /\ LET lat == parseFloat(manualCoords.lat)
           lng == parseFloat(manualCoords.lng)
       IN IF isNaN(lat) \/ isNaN(lng)
          THEN /\ lm' = [lm EXCEPT !.error = InvalidCoordsMessage]
               /\ UNCHANGED <<uiVars, savePending>>
          ELSE IF ~inRange(lat, lng)
          THEN /\ lm' = [lm EXCEPT !.error = RangeMessage]
               /\ UNCHANGED <<uiVars, savePending>>
          ELSE /\ Len(savePending) < MaxInFlight
               /\ lm' = [lm EXCEPT !.location = placeOf(lat, lng), !.error = NoError,
                                   !.showManualEntry = FALSE, !.isSaving = TRUE]
               /\ handleLocationUpdate(placeOf(lat, lng))
               /\ savePending' = saveLocationToBackend(savePending, placeOf(lat, lng))
    /\ UNCHANGED <<lmTimer, geoPending, mapPending, geolocationSupported>>

\* saveLocationToBackend after the await: the oldest request returns, with
\* success or an error that is only logged; finally setIsSaving(false)
SaveReturned ==
    /\ page = "dashboard" /\ savePending # <<>>
    /\ savePending' = Tail(savePending)
    /\ lm' = IF lm.mounted THEN [lm EXCEPT !.isSaving = FALSE] ELSE lm
    /\ UNCHANGED <<uiVars, lmTimer, geoPending, mapPending, geolocationSupported>>

\* MapView.requestLocationPermission, the My Location button
requestLocationPermission ==
    /\ Rendered /\ currentView \in {"dashboard", "map"}
    /\ geolocationSupported
    /\ mapPending < MaxInFlight
    /\ mapPending' = mapPending + 1
    /\ UNCHANGED <<uiVars, lm, lmTimer, geoPending, savePending, geolocationSupported>>

\* the success callback of getCurrentPosition in MapView
MapLocationSuccess(loc) ==
    /\ mapPending > 0
    /\ handleLocationUpdate(loc)
    /\ mapPending' = mapPending - 1
    /\ UNCHANGED <<lm, lmTimer, geoPending, savePending, geolocationSupported>>

\* the error callback of getCurrentPosition in MapView: an alert box
MapLocationError ==
    /\ page = "dashboard" /\ mapPending > 0
    /\ mapPending' = mapPending - 1
    /\ UNCHANGED <<uiVars, lm, lmTimer, geoPending, savePending, geolocationSupported>>

\* a step of the location components; the pipeline and the card are elsewhere
Located(op) == lastOp' = op /\ submitted' = NoCoords /\ UNCHANGED <<beVars, envVars, lastQuery, wcVars>>

\* no feed request is in flight (the location steps are taken between fetches)
FeedIdle == \A p \in PanelIds : panel[p].pending = <<>>

\* LocationManager and MapView under App, in a browser with or without geolocation
LocationNext ==
    \/ \E loc \in Locations \cup {NoLocation} :
          ProfileLoaded(loc) /\ LMMount(loc) /\ Located("ProfileLoaded")
    \/ LocationTimerFires
          /\ Located(IF geolocationSupported THEN "requestLocation" ELSE "geolocationUnsupported")
    \/ ClickGetLocation
          /\ Located(IF geolocationSupported THEN "requestLocation" ELSE "geolocationUnsupported")
    \/ \E loc \in Locations :
          FeedIdle /\ GeolocationSuccess(loc) /\ Located("geolocationSuccess")
    \/ \E code \in GeolocationErrorCodes : GeolocationError(code) /\ Located("geolocationError")
    \/ \E shown \in BOOLEAN : setShowManualEntry(shown) /\ Located("setShowManualEntry")
    \/ \E manualCoords \in ManualEntries :
          /\ FeedIdle
          /\ handleManualSubmit(manualCoords)
          /\ lastOp' = "handleManualSubmit" /\ submitted' = manualCoords
          /\ UNCHANGED <<beVars, envVars, lastQuery, wcVars>>
    \/ SaveReturned /\ Located("SaveReturned")
    \/ requestLocationPermission /\ Located("requestLocationPermission")
    \/ \E loc \in Locations :
          FeedIdle /\ MapLocationSuccess(loc) /\ Located("mapLocationSuccess")
    \/ MapLocationError /\ Located("mapLocationError")
    \/ \E k \in 1..MaxInFlight :
          FetchFailed("side", k) /\ UNCHANGED <<lm, lmTimer, geoPending, mapPending,
                                                 savePending, geolocationSupported>>
              /\ Located("FetchFailed")

\* a logged-in session (the token is stored), in a browser with or without geolocation
LocationStart ==
    /\ Start /\ localStorage # EmptyStorage /\ geolocationSupported \in BOOLEAN
    /\ userType = "farmer" /\ connectionLimit = MaxInFlight

LocationSpec == LocationStart /\ [][LocationNext]_vars

(***************************************************************************)
(* WelcomeCard                                                             *)
(***************************************************************************)
\* risk_score values the risk endpoint returns, in tenths: 0.0 .. 10.0
Scores == 0..100

\* getRiskLevel; !risk is true of null, undefined and of the number 0
getRiskLevel(risk) ==
    IF risk = NoRisk \/ risk = 0 THEN "Unknown"
    ELSE IF risk >= 80 THEN "Very High"
    ELSE IF risk >= 60 THEN "High"
    ELSE IF risk >= 40 THEN "Moderate"
    ELSE "Low"

getRiskColor(risk) ==
    IF risk = NoRisk \/ risk = 0 THEN "text-gray-500"
    ELSE IF risk >= 80 THEN "text-red-600"
    ELSE IF risk >= 60 THEN "text-orange-500"
    ELSE IF risk >= 40 THEN "text-yellow-500"
    ELSE "text-green-500"

\* the [userLocation] effect of WelcomeCard: fetchLocationData up to its first await
WelcomeEffect(loc) ==
    IF loc # NoLocation
    THEN cardLoading' = TRUE /\ cardPending' = cardPending + 1 /\ UNCHANGED riskSummary
    ELSE UNCHANGED wcVars

\* both requests answered; the risk endpoint returned a result with this score
RiskLoaded(score) ==
    /\ page = "dashboard" /\ cardPending > 0
    /\ riskSummary' = score
    /\ cardLoading' = FALSE
    /\ cardPending' = cardPending - 1
    /\ UNCHANGED uiVars

\* both requests answered; the risk endpoint returned no result
RiskEmpty ==
    /\ page = "dashboard" /\ cardPending > 0
    /\ cardLoading' = FALSE
    /\ cardPending' = cardPending - 1
    /\ UNCHANGED <<uiVars, riskSummary>>

\* a request failed: the catch block sets the mock data (risk_score 4.2)
RiskFailed ==
    /\ page = "dashboard" /\ cardPending > 0
    /\ riskSummary' = 42
    /\ cardLoading' = FALSE
    /\ cardPending' = cardPending - 1
    /\ UNCHANGED uiVars

\* the risk level the card shows; nothing while loading or without a summary
RiskLevelShown ==
    IF Rendered /\ ~cardLoading /\ riskSummary # NoRisk
    THEN getRiskLevel(riskSummary) ELSE "none"

\* WelcomeCard under App: the profile, location updates, the risk endpoint
RiskNext ==
    \/ \E loc \in Locations \cup {NoLocation} :
          ProfileLoaded(loc) /\ WelcomeEffect(loc)
              /\ lastOp' = "ProfileLoaded" /\ UNCHANGED <<beVars, envVars, lastQuery, lmVars>>
    \/ \E loc \in Locations :
          /\ cardPending < MaxInFlight
          /\ handleLocationUpdate(loc) /\ WelcomeEffect(loc)
          /\ lastOp' = "handleLocationUpdate" /\ UNCHANGED <<beVars, envVars, lastQuery, lmVars>>
    \/ \E k \in 1..MaxInFlight : FetchFailed("side", k) /\ Ran("FetchFailed")
    \/ \E score \in Scores :
          RiskLoaded(score) /\ lastOp' = "RiskLoaded" /\ UNCHANGED <<beVars, envVars, lastQuery, lmVars>>
    \/ RiskEmpty /\ lastOp' = "RiskEmpty" /\ UNCHANGED <<beVars, envVars, lastQuery, lmVars>>
    \/ RiskFailed /\ lastOp' = "RiskFailed" /\ UNCHANGED <<beVars, envVars, lastQuery, lmVars>>

RiskSpec == Init /\ [][RiskNext]_vars


\* a pipeline step ran; the dashboard is another process
Did(op) == lastOp' = op /\ UNCHANGED <<uiVars, envVars, aside>>

PipelineStart == Init /\ localStorage = EmptyStorage

\* the Deduplicator: two workers, signals of one cooldown key, the clock
DedupNext ==
    \/ \E w \in DedupWorkers, key \in CooldownKeys, value \in SignalValues :
          Receive(w, key, value) /\ Did("Receive")
    \/ \E w \in DedupWorkers :
          /\ Check(w)
          /\ Did(IF worker'[w].pc = "idle" THEN "suppressed" ELSE "checked")
    \/ \E w \in DedupWorkers :
          /\ Write(w)
          /\ Did(IF Conflict(w) THEN "conflict"
                 ELSE IF worker[w].seen = NoAlert THEN "created" ELSE "superseded")
    \/ Tick /\ Did("Tick")

DedupSpec == PipelineStart /\ [][DedupNext]_vars

\* signals of two severities: one alert, or one that supersedes another
DispatchSignals == {6, 8}

\* dispatch: one deduplicator worker, two dispatch workers, no clock
DispatchNext ==
    \/ \E key \in CooldownKeys, value \in DispatchSignals :
          Receive("w1", key, value) /\ Did("Receive")
    \/ /\ Check("w1")
       /\ Did(IF worker'["w1"].pc = "idle" THEN "suppressed" ELSE "checked")
    \/ /\ Write("w1")
       /\ Did(IF Conflict("w1") THEN "conflict"
              ELSE IF worker["w1"].seen = NoAlert THEN "created" ELSE "superseded")
    \/ \E alertId \in 1..MaxStored : Dispatch(alertId) /\ Did("Dispatch")
    \/ \E s \in Senders, i \in 1..(MaxStored * Len(PairSeq)) : StartSend(s, i) /\ Did("StartSend")
    \/ \E s \in Senders, result \in SendResults : SendDone(s, result) /\ Did(IF result = "rejected" THEN "SendRejected" ELSE "SendDone")
    \/ \E i \in 1..(MaxStored * Len(PairSeq)) : DeliveryConfirmed(i) /\ Did("DeliveryConfirmed")

DispatchSpec == PipelineStart /\ [][DispatchNext]_vars

(***************************************************************************)
(* Feed ordering                                                           *)
(***************************************************************************)
SeverityRank(a) == severityOrder(OptLower(a.severity_level))

PositionOf(s, id) == CHOOSE k \in 1..Len(s) : s[k].id = id

PermutationsOf(s) == {t \in SeqsOver({s[i] : i \in 1..Len(s)}) : Len(t) = Len(s)}

\* severity first, then recency, for every pair of displayed alerts that
\* differ in one of the two
OrderedBySeverityThenRecency(f) ==
    \A i, j \in 1..Len(f) :
        i < j =>
            \/ SeverityRank(f[i]) < SeverityRank(f[j])
            \/ /\ SeverityRank(f[i]) = SeverityRank(f[j])
               /\ DateValue(f[i].created_at) >= DateValue(f[j].created_at)

\* C1 as stated: the displayed list is ordered by severity, then by recency,
\* and the place of alerts equal in both is decided by their ids alone, so
\* every order in which the server can return the same alerts is displayed
\* in the same order.
C1_TotalOrderByAlertId ==
    \A p \in PanelIds :
        panel[p].mounted =>
            /\ OrderedBySeverityThenRecency(panel[p].filteredAlerts)
            /\ \A t \in PermutationsOf(panel[p].alerts) :
                   filterAlerts(t, panel[p].filter) = panel[p].filteredAlerts

\* C1 amended: the displayed list is ordered by severity (critical, high,
\* medium, low, anything else), then newest created_at first; two alerts equal
\* in severity and created_at are displayed in the order the server returned them.
C1_SeverityRecencyThenServerOrder ==
    \A p \in PanelIds :
        panel[p].mounted =>
            LET f == panel[p].filteredAlerts
            IN \A i, j \in 1..Len(f) :
                   i < j =>
                       \/ SeverityRank(f[i]) < SeverityRank(f[j])
                       \/ /\ SeverityRank(f[i]) = SeverityRank(f[j])
                          /\ DateValue(f[i].created_at) > DateValue(f[j].created_at)
                       \/ /\ SeverityRank(f[i]) = SeverityRank(f[j])
                          /\ DateValue(f[i].created_at) = DateValue(f[j].created_at)
                          /\ PositionOf(panel[p].alerts, f[i].id)
                                 < PositionOf(panel[p].alerts, f[j].id)

\* the server returned the four alerts oldest and least severe first, with
\* alert 3 ahead of its equal, alert 2
C1_Witness ==
    /\ lastOp = "FetchSucceeded"
    /\ panel["side"].filter = "all"
    /\ panel["side"].alerts =
           <<ServerAlert(4), ServerAlert(3), ServerAlert(2), ServerAlert(1)>>
    /\ panel["side"].filteredAlerts =
           <<ServerAlert(1), ServerAlert(3), ServerAlert(2), ServerAlert(4)>>


(***************************************************************************)
(* Read state and unread count                                             *)
(***************************************************************************)
NoDuplicates(list) == \A i, j \in 1..Len(list) : list[i] = list[j] => i = j

IsPrefix(s, t) == Len(s) <= Len(t) /\ SubSeq(t, 1, Len(s)) = s

\* C2 as stated: the unread count every mounted panel shows is the number of
\* alerts of its feed whose id is not in the stored readAlerts list.
C2_UnreadCountMatchesFeed ==
    \A p \in PanelIds :
        (Rendered /\ panel[p].mounted) =>
            panel[p].unreadCount = countUnread(panel[p].alerts, localStorage)

\* C3: readAlerts never holds an id twice, and a markAsRead call for an
\* alert that is already read changes neither readAlerts nor any panel's
\* unread count.
C3_MarkAsReadIdempotent ==
    /\ [](NoDuplicates(ReadAlertsList(localStorage)))
    /\ [][lastOp' = "markAsReadAgain" =>
              /\ localStorage' = localStorage
              /\ \A p \in PanelIds : panel'[p].unreadCount = panel[p].unreadCount]_vars

\* markAsRead was called again for an alert that is displayed and read
C3_Witness ==
    /\ lastOp = "markAsReadAgain"
    /\ \E p \in PanelIds : \E a \in IdsOf(panel[p].filteredAlerts) :
           isAlertRead(localStorage, a)

\* C4 as stated: an alert that is read stays read through every step.
C4_ReadStateNeverDestroyed ==
    [][\A a \in 1..MaxAlertId :
           isAlertRead(localStorage, a) => isAlertRead(localStorage', a)]_vars

\* C4 amended: every step other than a logout (Navbar.handleLogout with
\* App.handleLogout) and the handling of a 401 profile response keeps every
\* read record, in place; those two clear the stored list.
C4_ReadStateKeptUntilLogout ==
    [][lastOp' \notin {"handleLogout", "ProfileUnauthorized"} =>
           IsPrefix(ReadAlertsList(localStorage), ReadAlertsList(localStorage'))]_vars

\* a location update ran while an alert was read
C4_Witness ==
    /\ lastOp = "handleLocationUpdate"
    /\ ReadAlertsList(localStorage) # <<>>

C6_OneActivePerKey ==
    /\ [](\A key \in CooldownKeys : Cardinality(ActiveIds(alertStore, key)) <= 1)
    /\ [][lastOp' = "conflict" => alertStore' = alertStore]_vars

\* the second of two concurrent creates has just failed on the one alert stored
C6_Witness ==
    /\ lastOp = "conflict"
    /\ clock = 0
    /\ Len(alertStore) = 1
    /\ alertStore[1].state = "active"
    /\ \E w \in DedupWorkers : worker[w].pc = "check" /\ worker[w].retried

\* worker w settles its signal in this step
Decided(w) == worker[w].pc # "idle" /\ worker'[w].pc = "idle"

\* C7: when a worker settles a signal while its key has an active alert
\* inside the cooldown window, a strictly more severe signal leaves that alert
\* in the store as superseded and adds the new alert as the active one; any
\* other signal leaves the store unchanged.
C7_SupersedeOnlyIfMoreSevere ==
    [][\A w \in DedupWorkers :
          LET prior == ActiveInWindow(alertStore, worker[w].key, clock)
          IN (Decided(w) /\ prior # NoAlert) =>
                IF MoreSevere(worker[w].severity, alertStore[prior].severity)
                THEN /\ Len(alertStore') = Len(alertStore) + 1
                     /\ alertStore'[prior] = [alertStore[prior] EXCEPT !.state = "superseded"]
                     /\ \A i \in 1..Len(alertStore) : i # prior => alertStore'[i] = alertStore[i]
                     /\ alertStore'[Len(alertStore')].state = "active"
                     /\ alertStore'[Len(alertStore')].severity = worker[w].severity
                     /\ alertStore'[Len(alertStore')].key = worker[w].key
                ELSE alertStore' = alertStore]_vars

\* a more severe signal has just superseded the alert that was active
C7_Witness ==
    /\ lastOp = "superseded"
    /\ Len(alertStore) = 2
    /\ alertStore[1].state = "superseded"
    /\ alertStore[2].state = "active"
    /\ MoreSevere(alertStore[2].severity, alertStore[1].severity)

(***************************************************************************)
(* Delivery attempts                                                       *)
(***************************************************************************)
InFlight(i) == {s \in Senders : sender[s] = i}

C9_FanOutIdempotent ==
    /\ \A i, j \in 1..Len(attempts) :
           (/\ attempts[i].alert = attempts[j].alert
            /\ attempts[i].subscriber = attempts[j].subscriber
            /\ attempts[i].channel = attempts[j].channel) => i = j
    /\ \A i \in 1..Len(attempts) : Cardinality(InFlight(i)) <= 1

\* dispatch was invoked again for the only alert while the attempts of an
\* earlier invocation were being sent
C9_Witness ==
    /\ lastOp = "Dispatch"
    /\ Len(alertStore) = 1
    /\ Len(attempts) = Len(PairSeq)
    /\ \A s \in Senders : sender[s] # 0

\* C10: a sender takes an attempt, and dispatch adds attempts, only for an
\* alert that has the active flag at that moment; an attempt that is sent or
\* delivered stays so whatever happens to its alert.
C10_NoNewAttemptAfterSupersession ==
    [][/\ \A s \in Senders :
              (sender[s] = 0 /\ sender'[s] # 0) =>
                  alertStore[attempts[sender'[s]].alert].state = "active"
       /\ \A i \in 1..Len(attempts') :
              i > Len(attempts) => alertStore[attempts'[i].alert].state = "active"
       /\ \A i \in 1..Len(attempts) :
              attempts[i].state \in {"sent", "delivered"} =>
                  /\ Len(attempts') >= i
                  /\ attempts'[i].state \in {"sent", "delivered"}
                  /\ attempts'[i].alert = attempts[i].alert]_vars

\* alert 1 has just been superseded with one notification out and one attempt
\* still pending
C10_Witness ==
    /\ lastOp = "superseded"
    /\ alertStore[1].state = "superseded"
    /\ \E i, j \in 1..Len(attempts) :
           /\ attempts[i].alert = 1 /\ attempts[i].state \in {"sent", "delivered"}
           /\ attempts[j].alert = 1 /\ attempts[j].state = "pending"

(***************************************************************************)
(* Permanent failure                                                       *)
(***************************************************************************)
\* C11: a send that the channel rejects (invalid destination, unsubscribed)
\* leaves its attempt failed with the attempt count it had, whatever that
\* count is, and no sender holds the attempt afterwards.
C11_PermanentFailureIsTerminal ==
    [][lastOp' = "SendRejected" =>
           \A s \in Senders :
               (sender[s] # 0 /\ sender'[s] = 0) =>
                   /\ attempts'[sender[s]].state = "failed"
                   /\ attempts'[sender[s]].count = attempts[sender[s]].count
                   /\ \A t \in Senders : sender'[t] # sender[s]]_vars

\* a first send was rejected: the attempt is failed with every retry unused
C11_Witness ==
    /\ lastOp = "SendRejected"
    /\ \E i \in 1..Len(attempts) : attempts[i].state = "failed" /\ attempts[i].count = 0

(***************************************************************************)
(* Geographic relevance                                                    *)
(***************************************************************************)
\* C12: the answer to a feed request that carries a location holds an alert
\* of the store exactly when the place is within the alert's relevance radius
\* of its source point or the alert's region is the subscriber's region; an
\* alert out of the radius and of another region is left out.
C12_RelevantByRadiusOrRegion ==
    (lastOp = "FeedServed" /\ lastQuery.loc # NoLocation) =>
        \A i \in 1..Len(lastQuery.store) :
            LET a == lastQuery.store[i].id
                src == AlertSource(a)
                near == calculateDistance(LocationPoint(lastQuery.loc), src.point) <= src.radius
            IN (a \in IdsOf(panel["side"].alerts)) <=> (near \/ src.name = SubscriberRegion)

\* a located subscriber was served from a store with an alert in radius of
\* another region, one out of radius of the own region, and one that is neither
C12_Witness ==
    /\ lastOp = "FeedServed" /\ lastQuery.loc = 1
    /\ IdsOf(lastQuery.store) = {1, 2, 3, 4}
    /\ IdsOf(panel["side"].alerts) = {1, 2, 3}

\* C13: every feed request a panel starts carries lat and lon exactly when
\* userLocation is set, and then they are the coordinates of userLocation; a
\* request without them is answered with every alert of the store.
C13_LocationParamsIffLocated ==
    /\ []((lastOp = "FeedServed" /\ lastQuery.loc = NoLocation) =>
              panel["side"].alerts = lastQuery.store)
    /\ [][\A p \in PanelIds :
              (/\ panel'[p].mounted
               /\ ~panel[p].mounted \/ Len(panel'[p].pending) > Len(panel[p].pending))
                  => panel'[p].pending[Len(panel'[p].pending)] = userLocation']_vars

\* a user without a location was served the whole store
C13_Witness ==
    /\ lastOp = "FeedServed"
    /\ userLocation = NoLocation /\ lastQuery.loc = NoLocation
    /\ IdsOf(lastQuery.store) = {1, 2, 3, 4}
    /\ IdsOf(panel["side"].alerts) = {1, 2, 3, 4}

(***************************************************************************)
(* Risk level                                                              *)
(***************************************************************************)
\* C14 as stated: for every risk score 0.0 .. 10.0 the card shows the top
\* level from 8, High from 6, Moderate from 4 and Low below 4 (0 included).
C14_RiskLevelByThreshold ==
    (Rendered /\ ~cardLoading /\ riskSummary # NoRisk) =>
        RiskLevelShown = (IF riskSummary >= 80 THEN "Very High"
                          ELSE IF riskSummary >= 60 THEN "High"
                          ELSE IF riskSummary >= 40 THEN "Moderate"
                          ELSE "Low")

(***************************************************************************)
(* A failed feed fetch                                                     *)
(***************************************************************************)
\* C15 as stated: a failed fetch leaves the loaded alerts in place, shows no
\* error to the user, and records the failure in the error state.
C15_FailureShowsNoError ==
    [][lastOp' = "FetchFailed" =>
           \A p \in PanelIds :
               Len(panel'[p].pending) < Len(panel[p].pending) =>
                   /\ panel'[p].alerts = panel[p].alerts
                   /\ panel'[p].error # NoError
                   /\ ~errorShown(panel'[p])]_vars

\* C15 amended: a failed fetch leaves alerts, filteredAlerts and the unread
\* count as they were and sets the error message, which is shown to the user
\* in place of the "No alerts found" block; a successful fetch never sets it.
C15_FailureKeepsAlertsShowsError ==
    [][/\ lastOp' = "FetchFailed" =>
              \A p \in PanelIds :
                  Len(panel'[p].pending) < Len(panel[p].pending) =>
                      /\ panel'[p].alerts = panel[p].alerts
                      /\ panel'[p].filteredAlerts = panel[p].filteredAlerts
                      /\ panel'[p].unreadCount = panel[p].unreadCount
                      /\ panel'[p].error = FetchErrorMessage
                      /\ errorShown(panel'[p]) /\ ~emptyStateShown(panel'[p])
       /\ lastOp' = "FetchSucceeded" =>
              \A p \in PanelIds : panel'[p].error = panel[p].error]_vars

\* a fetch failed while alerts of an earlier fetch were displayed
C15_Witness ==
    /\ lastOp = "FetchFailed"
    /\ panel["side"].filteredAlerts # <<>>
    /\ errorShown(panel["side"])

(***************************************************************************)
(* Polling timer                                                           *)
(***************************************************************************)
\* C16: a mounted panel has exactly one active interval and an unmounted one
\* has none, in every state, also after userLocation changes; an interval
\* fires only for a mounted panel.
C16_OnePollingTimer ==
    /\ [](\A p \in PanelIds : panel[p].timers = IF panel[p].mounted THEN 1 ELSE 0)
    /\ [][lastOp' = "Poll" => \A p \in PanelIds :
              Len(panel'[p].pending) > Len(panel[p].pending) => panel[p].mounted]_vars

\* the alerts view was left after a location change: the main panel is gone
\* and the side panel polls on
C16_Witness ==
    /\ lastOp = "setCurrentView"
    /\ userLocation # NoLocation
    /\ ~panel["main"].mounted /\ panel["main"].timers = 0
    /\ panel["side"].mounted /\ panel["side"].timers = 1
    /\ currentView = "map"

(***************************************************************************)
(* Location updates                                                        *)
(***************************************************************************)
\* C17 as stated: every step in which LocationManager (geolocation, manual
\* entry) or MapView (My Location) changes App.userLocation also sends a save
\* request with the new coordinates to the location endpoint.
C17_LocationChangeIsSaved ==
    [][(/\ lastOp' \in {"geolocationSuccess", "handleManualSubmit", "mapLocationSuccess"}
        /\ userLocation' # userLocation)
           => savePending' = Append(savePending, userLocation')]_vars

\* C18: a manual submission is accepted exactly when both inputs parse to
\* numbers with latitude in [-90, 90] and longitude in [-180, 180]; it then
\* becomes the location of LocationManager and of App and is sent to the
\* backend; any other submission sets an error and changes none of the three.
C18_ManualCoordinatesValidated ==
    [][lastOp' = "handleManualSubmit" =>
           LET lat == parseFloat(submitted'.lat)
               lng == parseFloat(submitted'.lng)
               valid == /\ ~isNaN(lat) /\ ~isNaN(lng)
                        /\ lat \in -9000..9000 /\ lng \in -18000..18000
           IN IF valid
              THEN /\ lm'.location = placeOf(lat, lng)
                   /\ userLocation' = placeOf(lat, lng)
                   /\ savePending' = Append(savePending, placeOf(lat, lng))
                   /\ lm'.error = NoError
              ELSE /\ lm'.error # NoError
                   /\ lm'.location = lm.location
                   /\ userLocation' = userLocation
                   /\ savePending' = savePending]_vars

\* a latitude just above 90 was submitted by a user who has a location
C18_Witness ==
    /\ lastOp = "handleManualSubmit"
    /\ submitted.lat = "90.01"
    /\ lm.error = RangeMessage
    /\ lm.location # NoLocation /\ userLocation = lm.location

\* C19: every failed geolocation request of LocationManager (no geolocation
\* in the browser, or the error callback with any code) leaves the manual
\* entry form shown, an error set, isGettingLocation false and the location
\* as it was.
C19_GeolocationFailureFallsBack ==
    [][lastOp' \in {"geolocationError", "geolocationUnsupported"} =>
           /\ lm'.showManualEntry
           /\ lm'.error # NoError
           /\ ~lm'.isGettingLocation
           /\ lm'.location = lm.location
           /\ userLocation' = userLocation]_vars

\* an update of an existing location failed
C19_Witness ==
    /\ lastOp = "geolocationError"
    /\ lm.location # NoLocation
    /\ lm.showManualEntry /\ lm.error # NoError /\ ~lm.isGettingLocation

(***************************************************************************)
(* Logout                                                                  *)
(***************************************************************************)
\* C20 as stated: when Navbar.handleLogout has finished, whether its try
\* block completed or its catch block ran, local storage holds none of token,
\* user and readAlerts, and user and userLocation of App are null.
C20_LogoutClearsSession ==
    [][lastOp' = "handleLogout" =>
           /\ localStorage'.keys \cap {"token", "user", "readAlerts"} = {}
           /\ user' = NoLocation
           /\ userLocation' = NoLocation]_vars

(***************************************************************************)
(* Filter tabs over severities in any letter case                          *)
(***************************************************************************)
\* severity_level as the API may spell it
CasedSeverities == <<"Critical", "LOW", "critical", "Medium", Undefined, "High", "low", "severe">>

CasedAlert(i) ==
    [id |-> i,
     severity_level |-> CasedSeverities[((i - 1) % Len(CasedSeverities)) + 1],
     created_at |-> CreatedAtCatalogue[((i - 1) % Len(CreatedAtCatalogue)) + 1]]

\* one panel, every order and subset of a feed of MaxFeedId alerts whose
\* severities differ in letter case, every filter tab; requests are answered
\* in the order they were sent
FilterNext ==
    \/ ProfileLoaded(NoLocation) /\ Ran("ProfileLoaded")
    \/ Poll("side") /\ Ran("fetchAlerts")
    \/ \E feed \in SeqsOver({CasedAlert(i) : i \in 1..MaxFeedId}) :
          FetchSucceeded("side", 1, feed) /\ Ran("FetchSucceeded")
    \/ \E key \in FilterKeys : setFilter("side", key) /\ Ran("setFilter")

FilterSpec == Init /\ [][FilterNext]_vars

\* how often x occurs in s
Occurrences(s, x) == Cardinality({i \in 1..Len(s) : s[i] = x})

\* C21: filteredAlerts holds every fetched alert whose severity_level equals
\* the selected filter when letter case is ignored (every fetched alert under
\* 'all') as often as the feed holds it, and holds no other alert.
C21_FilterExact ==
    \A p \in PanelIds :
        panel[p].mounted =>
            LET pn == panel[p]
                selected(x) ==
                    \/ pn.filter = "all"
                    \/ /\ x.severity_level # Undefined
                       /\ toLowerCase(x.severity_level) = toLowerCase(pn.filter)
            IN /\ \A i \in 1..Len(pn.filteredAlerts) :
                      \E j \in 1..Len(pn.alerts) : pn.alerts[j] = pn.filteredAlerts[i]
               /\ \A j \in 1..Len(pn.alerts) :
                      Occurrences(pn.filteredAlerts, pn.alerts[j]) =
                          IF selected(pn.alerts[j])
                          THEN Occurrences(pn.alerts, pn.alerts[j]) ELSE 0

\* the critical tab over a feed that spells the severity in two ways
C21_Witness ==
    /\ lastOp \in {"setFilter", "FetchSucceeded"}
    /\ panel["side"].filter = "critical"
    /\ Len(panel["side"].alerts) >= 3
    /\ IdsOf(panel["side"].filteredAlerts) = {1, 3}

(***************************************************************************)
(* RoleBasedQuickActions                                                   *)
(***************************************************************************)
\* user_type values a profile may carry: the three roles, other spellings,
\* an unknown role, an empty and a missing field
UserTypes == {"admin", "extension_officer", "farmer", "Admin", "ADMIN", "staff", "", Undefined}

\* the titles of the cards each set holds
getFarmerActions == {"Weather Alerts", "Drought Risk", "Crop Health", "My Location"}

getAdminActions ==
    {"User Management", "Send Alerts", "System Analytics", "Data Management",
     "Alert Management", "Reports"}

getExtensionOfficerActions ==
    {"Farmer Support", "Send Alerts", "Regional Analytics", "Field Reports"}

\* a switch that compares the role after lower-casing it
getActionsForRole_ignoresCase(userRole) ==
    CASE userRole \in {"admin", "Admin", "ADMIN"} -> getAdminActions
      [] userRole = "extension_officer" -> getExtensionOfficerActions
      [] OTHER -> getFarmerActions

getActionsForRole(userRole) ==
    CASE userRole = "admin" -> getAdminActions
      [] userRole = "extension_officer" -> getExtensionOfficerActions
      [] OTHER -> getFarmerActions

\* the cards RoleBasedQuickActions renders inside App: userRole is
\* user?.user_type, and the default value 'farmer' of the parameter replaces
\* undefined
QuickActionsShown ==
    LET prop == IF user = NoLocation THEN Undefined ELSE userType
        userRole == IF prop = Undefined THEN "farmer" ELSE prop
    IN getActionsForRole(userRole)

\* a session of a user of any role
RoleStart ==
    /\ Start /\ geolocationSupported = TRUE
    /\ userType \in UserTypes /\ connectionLimit = MaxInFlight

RoleNext ==
    \/ \E loc \in Locations \cup {NoLocation} : ProfileLoaded(loc) /\ Ran("ProfileLoaded")
    \/ ProfileFailed /\ Ran("ProfileFailed")
    \/ \E loc \in Locations : handleLocationUpdate(loc) /\ Ran("handleLocationUpdate")
    \/ \E view \in Views : setCurrentView(view) /\ Ran("setCurrentView")
    \/ \E p \in PanelIds, k \in 1..MaxInFlight, feed \in ServerFeeds(MaxAlertId) :
          FetchSucceeded(p, k, feed) /\ Ran("FetchSucceeded")
    \/ \E p \in PanelIds, k \in 1..MaxInFlight : FetchFailed(p, k) /\ Ran("FetchFailed")

RoleSpec == RoleStart /\ [][RoleNext]_vars

\* C22: the dashboard shows the administrator cards only to userRole
\* 'admin', the extension-officer cards only to 'extension_officer', and the
\* farmer cards to every other role value, a missing or unknown one included.
C22_ActionsByRole ==
    Rendered =>
        LET role == IF user = NoLocation THEN Undefined ELSE userType
        IN /\ (QuickActionsShown = getAdminActions) <=> (role = "admin")
           /\ (QuickActionsShown = getExtensionOfficerActions) <=> (role = "extension_officer")
           /\ role \notin {"admin", "extension_officer"} => QuickActionsShown = getFarmerActions

\* a logged-in user whose role is spelled 'Admin' sees the farmer cards
C22_Witness ==
    /\ Rendered /\ user # NoLocation /\ lastOp = "ProfileLoaded"
    /\ userType = "Admin"
    /\ QuickActionsShown = getFarmerActions

(***************************************************************************)
(* Overlapping feed requests                                               *)
(***************************************************************************)
\* a browser that keeps one more request of a panel open
RaceStart ==
    /\ Start /\ geolocationSupported = TRUE
    /\ userType = "farmer" /\ connectionLimit = MaxInFlight + 1

\* one panel whose requests overlap and are answered in any order
RaceNext ==
    \/ \E loc \in Locations \cup {NoLocation} : ProfileLoaded(loc) /\ Ran("ProfileLoaded")
    \/ \E loc \in Locations : handleLocationUpdate(loc) /\ Ran("handleLocationUpdate")
    \/ Poll("side") /\ Ran("Poll")
    \/ Refresh("side") /\ Ran("Refresh")
    \/ \E k \in 1..(MaxInFlight + 1), store \in AlertStores(MaxFeedId) :
          FeedServed("side", k, store)
    \/ \E k \in 1..(MaxInFlight + 1) : FetchFailed("side", k) /\ Ran("FetchFailed")

RaceSpec == RaceStart /\ [][RaceNext]_vars

\* C23 as stated: when the last of several overlapping requests has been
\* answered, the alerts the panel holds are the answer to the request issued
\* last, which carried the current userLocation; the answer to an older
\* request never replaces it.
C23_LatestRequestWins ==
    (/\ panel["side"].mounted
     /\ panel["side"].pending = <<>>
     /\ lastOp = "FeedServed")
        => /\ lastQuery.loc = userLocation
           /\ panel["side"].alerts = feedQuery(lastQuery.store, userLocation, SubscriberRegion)

\* C27 as stated: loading of a mounted panel is true exactly while at least
\* one of its feed requests is in flight.
C27_LoadingWhileInFlight ==
    \A p \in PanelIds :
        panel[p].mounted => (panel[p].loading <=> panel[p].pending # <<>>)

(***************************************************************************)
(* The navbar badge, the displayed location, start-up errors               *)
(***************************************************************************)
\* C24 as stated: once a panel has loaded alerts, the unread badge of the
\* navbar (App.unreadAlertsCount) equals the unread count that panel computed,
\* also after markAsRead.
C24_BadgeMatchesPanel ==
    \A p \in PanelIds :
        (Rendered /\ panel[p].mounted /\ panel[p].alerts # <<>>) =>
            unreadAlertsCount = panel[p].unreadCount

\* C25 as stated: while the dashboard is rendered, the location
\* LocationManager displays equals App.userLocation, whichever component
\* updated the location last.
C25_DisplayedLocationIsAppLocation ==
    (Rendered /\ lm.mounted) => lm.location = userLocation

\* C26 as stated: a profile request that fails with anything but a 401 leaves
\* App in the error state with that message and never rendering the dashboard
\* with user = null; a 401 clears local storage and starts the redirect to
\* the login page.
C26_ProfileFailureHandled ==
    [][/\ lastOp' = "ProfileFailed" =>
             /\ appError' = "Failed to load user data"
             /\ ~(Rendered' /\ user' = NoLocation)
       /\ lastOp' = "ProfileUnauthorized" =>
             /\ localStorage' = EmptyStorage
             /\ navigating']_vars

====
